---- MODULE Spec2Model ----
(***************************************************************************)
(* A model of pngDecoder.c: the signature check, the chunk walk of main,   *)
(* ReadChunk, AppendChunk, GetIhdrChunkData and DecompressIdatChuncks.     *)
(*                                                                         *)
(* Bytes are 0..255.  A 32-bit unsigned VALUE is the tuple of its four     *)
(* bytes, most significant first (TLC's integers stop at 2^31 - 1); an     *)
(* object in MEMORY is the tuple of its bytes in address order.  The host  *)
(* byte order turns one into the other (HostValue).                        *)
(***************************************************************************)
EXTENDS Integers, Sequences, FiniteSets, TLC

VARIABLES
    chunks,             \* input: the chunk list the file was written from
    mutation,           \* input: how the written file was damaged, if at all
    file,               \* input: the bytes of the file on disk
    pc,                 \* position of main
    isLittleEndian,     \* main's isLittleEndian (IsLittleEndian())
    cursor,             \* main's cursor
    chunk,              \* main's loop-local Chunk, as ReadChunk left it
    crc,                \* ReadChunk's crc, the stored checksum it decoded
    chunkDynamicArray,  \* main's chunk array
    ihdr,               \* main's Ihdr
    compressedSource,   \* DecompressIdatChuncks' compressed buffer contents
    inflated,           \* uncompress: whether called, its result, the size it set
    live,               \* heap blocks allocated and not yet released
    memErr,             \* memory errors committed so far
    reads,              \* number of ReadChunk invocations
    lastRead,           \* the last ReadChunk: the cursor it began at, how far it got
    oob,                \* whether a byte outside the file buffer was read
    exitCode,           \* main's return value
    err                 \* the message printed on stderr, "" if none

vars == <<chunks, mutation, file, pc, isLittleEndian, cursor, chunk, crc,
          chunkDynamicArray, ihdr, compressedSource, inflated, live, memErr,
          reads, lastRead, oob, exitCode, err>>

----------------------------------------------------------------------------
(* Bounds of the model *)

\* chunks written before the optional terminator
MaxChunks == 2
\* bytes cut from the end of the file by a truncation
MaxCut == 13
\* bytes after a heap block that can be read without a fault
Window == 16
\* largest size the decompressor reports for its output
MaxInflated == 2

----------------------------------------------------------------------------
(* Program constants *)

PNG_SIGNATURE_LENGTH == 8
CHUNK_DATA_LENGTH == 4
CHUNK_TYPE_LENGTH == 4
CHUNK_CRC_LENGTH == 4
IHDR_LENGTH == 13
IHDR_WIDTH_BYTES == 4
IHDR_HEIGHT_BYTES == 4
IHDR_OTHER_BYTES == 1

pngSignature == <<137, 80, 78, 71, 13, 10, 26, 10>>
LAST_CHUNK_TYPE_SIGNATURE == <<73, 69, 78, 68>>
DATA_CHUNK_TYPE == <<73, 68, 65, 84>>
IHDR_TYPE == <<73, 72, 68, 82>>
TEXT_TYPE == <<116, 69, 88, 116>>

GRAYSCALE == 0
TRUECOLOR == 2
INDEXED_COLOR == 3
GRAYSCALE_WITH_ALPHA == 4
TRUECOLOR_WITH_ALPHA == 6

Byte == 0..255

----------------------------------------------------------------------------
(* Bit operations on bytes and on 32-bit values *)

RECURSIVE XorBits(_, _, _)
XorBits(a, b, n) ==
    IF n = 0 THEN 0
    ELSE ((a + b) % 2) + 2 * XorBits(a \div 2, b \div 2, n - 1)

XorNib == [a \in 0..15 |-> [b \in 0..15 |-> XorBits(a, b, 4)]]

XorByte(a, b) == XorNib[a % 16][b % 16] + 16 * XorNib[a \div 16][b \div 16]

Xor32(v, w) == [i \in 1..4 |-> XorByte(v[i], w[i])]

\* v >> 1 on a 32-bit value
Shr1(v) == [i \in 1..4 |->
              (v[i] \div 2) + (IF i > 1 THEN (v[i - 1] % 2) * 128 ELSE 0)]

\* v >> 8 on a 32-bit value
Shr8(v) == <<0, v[1], v[2], v[3]>>

Zero32 == <<0, 0, 0, 0>>
Ones32 == <<255, 255, 255, 255>>

\* The number a 32-bit value denotes, for the values TLC's integers hold.
Small(v) == v[1] = 0 /\ v[2] = 0
Num(v) == v[3] * 256 + v[4]
U32(n) == <<0, 0, n \div 256, n % 256>>

----------------------------------------------------------------------------
(* zlib's crc32: the reflected CRC-32 of polynomial 0xEDB88320 *)

CrcPoly == <<237, 184, 131, 32>>

RECURSIVE CrcEntry(_, _)
CrcEntry(c, k) ==
    IF k = 0 THEN c
    ELSE CrcEntry(IF c[4] % 2 = 1 THEN Xor32(CrcPoly, Shr1(c)) ELSE Shr1(c),
                  k - 1)

CrcTable == [n \in Byte |-> CrcEntry(<<0, 0, 0, n>>, 8)]

RECURSIVE CrcUpdate(_, _, _)
CrcUpdate(c, s, i) ==
    IF i > Len(s) THEN c
    ELSE CrcUpdate(Xor32(CrcTable[XorByte(c[4], s[i])], Shr8(c)), s, i + 1)

\* crc32(crc, buf, len): continue the checksum crc over the bytes s
crc32(c, s) == Xor32(CrcUpdate(Xor32(c, Ones32), s, 1), Ones32)

----------------------------------------------------------------------------
(* The file on disk: a signature and chunks, written as the format lays   *)
(* them out, then possibly damaged                                         *)

SeqOf(S, n) == UNION {[1..k -> S] : k \in 0..n}

RECURSIVE Flatten(_)
Flatten(ss) == IF ss = <<>> THEN <<>> ELSE Head(ss) \o Flatten(Tail(ss))

Chunk(type, data) == [type |-> type, data |-> data]

ValidIhdrData == <<0, 0, 0, 1, 0, 0, 0, 1, 8, 2, 0, 0, 0>>

HeaderPool == {Chunk(IHDR_TYPE, ValidIhdrData)}

BodyPool == {Chunk(DATA_CHUNK_TYPE, <<120>>),
             Chunk(DATA_CHUNK_TYPE, <<156, 99>>),
             Chunk(TEXT_TYPE, <<>>),
             Chunk(LAST_CHUNK_TYPE_SIGNATURE, <<>>)}

\* length:u32 big-endian | type | payload | checksum:u32 big-endian
WireChunk(c) ==
    U32(Len(c.data)) \o c.type \o c.data \o crc32(Zero32, c.type \o c.data)

PoolWire == [c \in HeaderPool \cup BodyPool |-> WireChunk(c)]

Serialize(cs) == pngSignature \o Flatten([i \in 1..Len(cs) |-> PoolWire[cs[i]]])

ChunkLists ==
    {h \o b \o t : h \in {<<>>} \cup {<<c>> : c \in HeaderPool},
                   b \in SeqOf(BodyPool, MaxChunks),
                   t \in {<<>>, <<Chunk(LAST_CHUNK_TYPE_SIGNATURE, <<>>)>>}}

NoMutation == [kind |-> "none", at |-> 0]

\* a length field of 2^32 - 16
HugeLength == <<255, 255, 255, 240>>

Mutations(n) ==
    {NoMutation}
    \cup {[kind |-> "flip", at |-> p] : p \in 0..(n - 1)}
    \cup {[kind |-> "cut", at |-> n - t] : t \in 1..(IF n < MaxCut THEN n ELSE MaxCut)}
    \cup (IF n >= PNG_SIGNATURE_LENGTH + CHUNK_DATA_LENGTH
          THEN {[kind |-> "huge", at |-> PNG_SIGNATURE_LENGTH]}
          ELSE {})

\* flip: the lowest bit of the byte at offset at; cut: keep the first at bytes;
\* huge: the length field at offset at replaced by HugeLength
Mutate(bytes, m) ==
    CASE m.kind = "none" -> bytes
      [] m.kind = "flip" -> [bytes EXCEPT ![m.at + 1] = XorByte(@, 1)]
      [] m.kind = "cut"  -> SubSeq(bytes, 1, m.at)
      [] m.kind = "huge" ->
            [j \in 1..Len(bytes) |->
                IF j > m.at /\ j <= m.at + CHUNK_DATA_LENGTH
                THEN HugeLength[j - m.at] ELSE bytes[j]]

----------------------------------------------------------------------------
(* Memory *)

BUFFER == <<"buffer", 0>>
ARRAY == <<"array", 0>>
COMPRESSED == <<"compressed", 0>>
INFLATED == <<"inflated", 0>>
DataBlock(k) == <<"data", k>>

\* what a read outside an allocation, or of bytes never written, may find
GarbageBytes == {0, 204}

\* byte at offset i of the file buffer; g stands for the bytes after it
Mem(g, i) == IF i < Len(file) THEN file[i + 1] ELSE g

MemRange(g, from, n) == [i \in 1..n |-> Mem(g, from + i - 1)]

\* a read of n bytes at offset from leaves the buffer / leaves the memory
\* whose bytes the model holds (the one longer read it follows, without its
\* bytes, is the memcpy of a length that wraps the cursor, see ReadChunk)
Outside(from, n) == n > 0 /\ from + n > Len(file)
Faults(from, n) == n > 0 /\ from + n > Len(file) + Window

\* free(p) of a block: releasing a block that is not live is a double free
FreeIn(blocks, b) == blocks \ {b}
FreeErr(blocks, b) == IF b \in blocks THEN {} ELSE {"doubleFree"}

----------------------------------------------------------------------------
(* Byte order *)

Reverse4(v) == <<v[4], v[3], v[2], v[1]>>

\* the value of an unsigned int whose bytes in memory are m
HostValue(m, littleEndian) == IF littleEndian THEN Reverse4(m) ELSE m

\* ((v & 0xFF000000) >> 24) | ((v & 0x00FF0000) >> 8)
\*   | ((v & 0x0000FF00) << 8) | ((v & 0x000000FF) << 24)
ToLittleEndian(value) == <<value[4], value[3], value[2], value[1]>>

\* the wire's reading of four bytes: most significant first
BigEndian(m) == m

\* strcmp(a, b) == 0 on NUL-terminated byte strings
RECURSIVE CStr(_)
CStr(s) == IF s = <<>> \/ Head(s) = 0 THEN <<>> ELSE <<Head(s)>> \o CStr(Tail(s))
StrEq(a, b) == CStr(a) = CStr(b)

----------------------------------------------------------------------------
(* State after construction: nothing has run *)

NoChunk == [dataLength |-> Zero32, type |-> <<0, 0, 0, 0, 0>>, data |-> <<>>]
NoIhdr == [width |-> Zero32, height |-> Zero32, bitDepth |-> Zero32,
           colorType |-> Zero32, compressionMethod |-> 0, filterMethod |-> 0,
           interlaceMethod |-> 0]
NoRead == [at |-> 0, stage |-> "none"]
NoInflated == [called |-> FALSE, ok |-> FALSE, size |-> 0]

Init ==
    /\ chunks \in ChunkLists
    /\ mutation \in Mutations(Len(Serialize(chunks)))
    /\ file = Mutate(Serialize(chunks), mutation)
    /\ pc = "main"
    /\ isLittleEndian = TRUE
    /\ cursor = 0
    /\ chunk = NoChunk
    /\ crc = Zero32
    /\ chunkDynamicArray = <<>>
    /\ ihdr = NoIhdr
    /\ compressedSource = <<>>
    /\ inflated = NoInflated
    /\ live = {}
    /\ memErr = {}
    /\ reads = 0
    /\ lastRead = NoRead
    /\ oob = FALSE
    /\ exitCode = 0
    /\ err = ""

Exit(code, message) ==
    /\ pc' = "exit"
    /\ exitCode' = code
    /\ err' = message

Crash ==
    /\ pc' = "crashed"
    /\ UNCHANGED <<exitCode, err>>

----------------------------------------------------------------------------
(* main, lines 326-340: IsLittleEndian, GetFileSize, malloc of the buffer *)

Start ==
    /\ pc = "main"
    /\ \E host \in BOOLEAN, opened \in BOOLEAN, allocated \in BOOLEAN :
        /\ isLittleEndian' = host
        /\ IF ~opened
           THEN Exit(-1, "Error: Can't open the file!") /\ UNCHANGED live
           ELSE IF ~allocated
           THEN Exit(-1, "Error: Unable to allocate enough memory!")
                /\ UNCHANGED live
           ELSE /\ pc' = "FillBuffer"
                /\ live' = {BUFFER}
                /\ UNCHANGED <<exitCode, err>>
    /\ UNCHANGED <<chunks, mutation, file, cursor, chunk, crc,
                   chunkDynamicArray, ihdr, compressedSource, inflated,
                   memErr, reads, lastRead, oob>>

(* FillBuffer and main's return on its failure, lines 47-78 and 342-346 *)

\* the same comparison over the first four bytes only
SignatureMatchesShort(g) == MemRange(g, 0, 4) = SubSeq(pngSignature, 1, 4)

\* memcmp(pngSignature, buffer, PNG_SIGNATURE_LENGTH) == 0
SignatureMatches(g) ==
    MemRange(g, 0, PNG_SIGNATURE_LENGTH) = pngSignature

FillBuffer ==
    /\ pc = "FillBuffer"
    /\ \E opened \in BOOLEAN, g \in GarbageBytes \cup {10} :
        IF ~opened
        THEN /\ Exit(-1, "Error: Can't open the file!")
             /\ UNCHANGED <<live, cursor, oob>>
        ELSE IF Len(file) <= 0
        THEN /\ Exit(-1, "Error: Something in the reading went wrong!")
             /\ live' = FreeIn(live, BUFFER)
             /\ UNCHANGED <<cursor, oob>>
        ELSE /\ oob' = (oob \/ Outside(0, PNG_SIGNATURE_LENGTH))
             /\ IF ~SignatureMatches(g)
                THEN /\ Exit(-1, "Error: Invalid PNG signature!")
                     /\ live' = FreeIn(live, BUFFER)
                     /\ UNCHANGED cursor
                ELSE /\ cursor' = PNG_SIGNATURE_LENGTH
                     /\ pc' = "ReadChunk"
                     /\ UNCHANGED <<live, exitCode, err>>
    /\ UNCHANGED <<chunks, mutation, file, isLittleEndian, chunk, crc,
                   chunkDynamicArray, ihdr, compressedSource, inflated,
                   memErr, reads, lastRead>>

----------------------------------------------------------------------------
(* ReadChunk and main's return on its failure, lines 98-143 and 352-356.   *)
(* The code checks no read against the buffer's length.  A read that       *)
(* leaves the buffer finds garbage bytes g or, as the build has it, faults *)
(* (tolerant = FALSE); a read that leaves the mapped Window faults.        *)

\* the same without the swap on a little-endian host
Decode32NoSwap(m) == HostValue(m, isLittleEndian)

\* the decoded value of a 4-byte big-endian field copied into an unsigned int
Decode32(m) ==
    IF isLittleEndian THEN ToLittleEndian(HostValue(m, isLittleEndian))
    ELSE HostValue(m, isLittleEndian)

\* crc32(0L, Z_NULL, 0), then over the type, then over the data
Checksum(type, data) ==
    crc32(crc32(Zero32, SubSeq(type, 1, CHUNK_TYPE_LENGTH)), data)

\* the same test on the low byte of the two checksums only
ChecksumFailsLowByte(stored, type, data) == stored[4] # Checksum(type, data)[4]

\* whether the checksum test of line 134 rejects the chunk
ChecksumFails(stored, type, data) == stored # Checksum(type, data)

\* every byte ReadChunk will read lies inside the buffer
ReadInside ==
    /\ ~Outside(cursor, CHUNK_DATA_LENGTH + CHUNK_TYPE_LENGTH)
    /\ Small(Decode32(MemRange(0, cursor, CHUNK_DATA_LENGTH)))
    /\ ~Outside(cursor, CHUNK_DATA_LENGTH + CHUNK_TYPE_LENGTH
                        + Num(Decode32(MemRange(0, cursor, CHUNK_DATA_LENGTH)))
                        + CHUNK_CRC_LENGTH)

Stops(tolerant, from, n) == Faults(from, n) \/ (~tolerant /\ Outside(from, n))

\* *cursor += chunk->dataLength, line 120: cursor and dataLength are unsigned
\* int, so the sum is taken modulo 2^32.  For a length of 2^32 - k with
\* k <= 256 and at >= k the sum passes 2^32 and comes out as at - k.
Wraps(at, dataLength) ==
    /\ dataLength[1] = 255 /\ dataLength[2] = 255 /\ dataLength[3] = 255
    /\ at >= 256 - dataLength[4]

AddWrapped(at, dataLength) == at - (256 - dataLength[4])

ReadChunk ==
    /\ pc = "ReadChunk"
    /\ \E allocated \in BOOLEAN,
          g \in (IF ReadInside THEN {0} ELSE GarbageBytes),
          tolerant \in (IF ReadInside THEN {TRUE} ELSE BOOLEAN),
          matches \in (IF ReadInside THEN {TRUE} ELSE BOOLEAN) :
        LET c1 == cursor + CHUNK_DATA_LENGTH
            c2 == c1 + CHUNK_TYPE_LENGTH
            dataLength == Decode32(MemRange(g, cursor, CHUNK_DATA_LENGTH))
            type == MemRange(g, c1, CHUNK_TYPE_LENGTH) \o <<0>>
            n == Num(dataLength)
            c3 == c2 + n
            c4 == c3 + CHUNK_CRC_LENGTH
            data == MemRange(g, c2, n)
            stored == Decode32(MemRange(g, c3, CHUNK_CRC_LENGTH))
            block == DataBlock(Len(chunkDynamicArray) + 1)
            w3 == AddWrapped(c2, dataLength)
            w4 == w3 + CHUNK_CRC_LENGTH
        IN  /\ reads' = reads + 1
            /\ IF Stops(tolerant, cursor, CHUNK_DATA_LENGTH)
               THEN /\ Crash
                    /\ lastRead' = [at |-> cursor, stage |-> "length"]
                    /\ oob' = TRUE
                    /\ UNCHANGED <<cursor, chunk, crc, live>>
               ELSE IF Stops(tolerant, c1, CHUNK_TYPE_LENGTH)
               THEN /\ Crash
                    /\ lastRead' = [at |-> cursor, stage |-> "type"]
                    /\ oob' = TRUE
                    /\ cursor' = c1
                    /\ chunk' = [chunk EXCEPT !.dataLength = dataLength]
                    /\ UNCHANGED <<crc, live>>
               ELSE IF ~allocated
               THEN /\ Exit(-1, "Error: Unable to allocate enough memory for chunk data!")
                    /\ lastRead' = [at |-> cursor, stage |-> "malloc"]
                    /\ oob' = (oob \/ Outside(cursor, c2 - cursor))
                    /\ cursor' = c2
                    /\ chunk' = [dataLength |-> dataLength, type |-> type,
                                 data |-> <<>>]
                    /\ live' = FreeIn(live, BUFFER)
                    /\ UNCHANGED crc
               ELSE IF /\ tolerant
                       /\ Wraps(c2, dataLength)
                       /\ ~Stops(tolerant, w3, CHUNK_CRC_LENGTH)
               THEN \* the memcpy of line 119 ran over 2^32 - k bytes of
                    \* memory that was all readable; the checksum of line
                    \* 132 is over those bytes, which the model does not
                    \* hold, and may or may not match; it follows the run
                    \* no further when it does
                    /\ lastRead' = [at |-> cursor, stage |-> "wrapped"]
                    /\ oob' = TRUE
                    /\ cursor' = w4
                    /\ chunk' = [dataLength |-> dataLength, type |-> type,
                                 data |-> <<>>]
                    /\ crc' = Decode32(MemRange(g, w3, CHUNK_CRC_LENGTH))
                    /\ IF matches
                       THEN /\ pc' = "beyond"
                            /\ live' = live \cup {block}
                            /\ UNCHANGED <<exitCode, err>>
                       ELSE /\ Exit(-1, "Error: Checksum failed!")
                            /\ live' = FreeIn(live, BUFFER)
               ELSE IF ~Small(dataLength) \/ Stops(tolerant, c2, n)
               THEN /\ Crash
                    /\ lastRead' = [at |-> cursor, stage |-> "copy"]
                    /\ oob' = TRUE
                    /\ cursor' = c2
                    /\ chunk' = [dataLength |-> dataLength, type |-> type,
                                 data |-> <<>>]
                    /\ live' = live \cup {block}
                    /\ UNCHANGED crc
               ELSE IF Stops(tolerant, c3, CHUNK_CRC_LENGTH)
               THEN /\ Crash
                    /\ lastRead' = [at |-> cursor, stage |-> "crc"]
                    /\ oob' = TRUE
                    /\ cursor' = c3
                    /\ chunk' = [dataLength |-> dataLength, type |-> type,
                                 data |-> data]
                    /\ live' = live \cup {block}
                    /\ UNCHANGED crc
               ELSE /\ lastRead' = [at |-> cursor, stage |-> "compare"]
                    /\ oob' = (oob \/ Outside(cursor, c4 - cursor))
                    /\ cursor' = c4
                    /\ chunk' = [dataLength |-> dataLength, type |-> type,
                                 data |-> data]
                    /\ crc' = stored
                    /\ IF ChecksumFails(stored, type, data)
                       THEN /\ Exit(-1, "Error: Checksum failed!")
                            /\ live' = FreeIn(live, BUFFER)
                       ELSE /\ pc' = "AppendChunk"
                            /\ live' = live \cup {block}
                            /\ UNCHANGED <<exitCode, err>>
    /\ UNCHANGED <<chunks, mutation, file, isLittleEndian, chunkDynamicArray,
                   ihdr, compressedSource, inflated, memErr>>

(* AppendChunk, main's handling of its failure and the terminator test,    *)
(* lines 145-157 and 358-374                                               *)

IsLast(type) == StrEq(type, LAST_CHUNK_TYPE_SIGNATURE \o <<0>>)

AppendChunk ==
    /\ pc = "AppendChunk"
    /\ \E reallocated \in BOOLEAN :
        LET arraySize == Len(chunkDynamicArray) + 1
        IN  IF ~reallocated
            THEN \* *chunkDynamicArray is NULL now and the old block is lost;
                 \* the loop of line 360 reads through the null pointer
                 IF arraySize - 1 > 0
                 THEN /\ Crash
                      /\ memErr' = memErr \cup {"nullDereference"}
                      /\ UNCHANGED <<chunkDynamicArray, live>>
                 ELSE /\ Exit(-1, "Error: Unable to reallocate memory for chunk dynamic array!")
                      /\ live' = FreeIn(FreeIn(live, DataBlock(arraySize)), BUFFER)
                      /\ UNCHANGED <<chunkDynamicArray, memErr>>
            ELSE /\ chunkDynamicArray' = Append(chunkDynamicArray, chunk)
                 /\ UNCHANGED <<exitCode, err, memErr>>
                 /\ IF IsLast(chunk.type)
                    THEN /\ live' = FreeIn(live \cup {ARRAY}, BUFFER)
                         /\ pc' = "GetIhdrChunkData"
                    ELSE /\ live' = live \cup {ARRAY}
                         /\ pc' = "ReadChunk"
    /\ UNCHANGED <<chunks, mutation, file, isLittleEndian, cursor, chunk, crc,
                   ihdr, compressedSource, inflated, reads, lastRead, oob>>

----------------------------------------------------------------------------
(* GetIhdrChunkData, lines 180-280.  ihdr is an uninitialised local of     *)
(* main: each of its bytes holds garbage g until a memcpy writes it, and   *)
(* the memcpy of bitDepth and of colorType writes one byte of four.        *)

\* an unsigned int of garbage after memcpy(&field, p, 1)
OneByteInto(b, g) == HostValue(<<b, g, g, g>>, isLittleEndian)

GarbageIhdr(g) ==
    [width |-> <<g, g, g, g>>, height |-> <<g, g, g, g>>,
     bitDepth |-> <<g, g, g, g>>, colorType |-> <<g, g, g, g>>,
     compressionMethod |-> g, filterMethod |-> g, interlaceMethod |-> g]

HdrResult(ret, message, h) == [ret |-> ret, err |-> message, ihdr |-> h]

BitDepthKnown(v) == v \in {U32(1), U32(2), U32(4), U32(8), U32(16)}

ColorTypeKnown(v) ==
    v \in {U32(GRAYSCALE), U32(TRUECOLOR), U32(INDEXED_COLOR),
           U32(GRAYSCALE_WITH_ALPHA), U32(TRUECOLOR_WITH_ALPHA)}

\* the switch of lines 223-253
PairAllowed(bitDepth, colorType) ==
    CASE colorType = U32(TRUECOLOR) -> bitDepth \in {U32(8), U32(16)}
      [] colorType = U32(INDEXED_COLOR) ->
            bitDepth \in {U32(1), U32(2), U32(4), U32(8)}
      [] colorType = U32(GRAYSCALE_WITH_ALPHA) -> bitDepth \in {U32(8), U32(16)}
      [] colorType = U32(TRUECOLOR_WITH_ALPHA) -> bitDepth \in {U32(8), U32(16)}
      [] OTHER -> TRUE

\* dataLength < IHDR_LENGTH
TooShort(ihdrChunk) ==
    Small(ihdrChunk.dataLength) /\ Num(ihdrChunk.dataLength) < IHDR_LENGTH

GetIhdrChunkData(ihdrChunk, g) ==
    LET d == ihdrChunk.data
        h0 == GarbageIhdr(g)
        rawWidth == HostValue(SubSeq(d, 1, IHDR_WIDTH_BYTES), isLittleEndian)
        h1 == [h0 EXCEPT !.width = rawWidth]
        rawHeight == HostValue(SubSeq(d, 5, 4 + IHDR_HEIGHT_BYTES), isLittleEndian)
        h2 == [h1 EXCEPT !.height = rawHeight]
        h3 == IF isLittleEndian
              THEN [h2 EXCEPT !.width = ToLittleEndian(rawWidth),
                              !.height = ToLittleEndian(rawHeight)]
              ELSE h2
        h4 == [h3 EXCEPT !.bitDepth = OneByteInto(d[9], g)]
        h5 == [h4 EXCEPT !.colorType = OneByteInto(d[10], g)]
        h6 == [h5 EXCEPT !.compressionMethod = d[11]]
        h7 == [h6 EXCEPT !.filterMethod = d[12]]
        h8 == [h7 EXCEPT !.interlaceMethod = d[13]]
    IN  IF TooShort(ihdrChunk)
        THEN HdrResult(-1, "Error: IHDR chunk data length is less than 13!", h0)
        ELSE IF h1.width = Zero32
        THEN HdrResult(-1, "Error: IHDR width less/equal zero!", h1)
        ELSE IF h2.height = Zero32
        THEN HdrResult(-1, "Error: IHDR height less/equal zero!", h2)
        ELSE IF ~BitDepthKnown(h4.bitDepth)
        THEN HdrResult(-1, "Error: Invalid IHDR bit depth!", h4)
        ELSE IF ~ColorTypeKnown(h5.colorType)
        THEN HdrResult(-1, "Error: Invalid IHDR color type!", h5)
        ELSE IF ~PairAllowed(h5.bitDepth, h5.colorType)
        THEN HdrResult(-1, "Error: IHDR color type and bit depth invalid pair!", h5)
        ELSE IF h6.compressionMethod # 0
        THEN HdrResult(-1, "Error: IHDR compression method not zero. Only zero value allowed for PNG!", h6)
        ELSE IF h7.filterMethod # 0
        THEN HdrResult(-1, "Error: IHDR filter method not zero. Only zero value allowed for PNG!", h7)
        ELSE IF h8.interlaceMethod # 0 /\ h8.interlaceMethod # 1
        THEN HdrResult(-1, "Error: IHDR interlace method not valid!", h8)
        ELSE HdrResult(0, "", h8)

\* the loops of lines 380-383, 393-396 and 400-403, then free of the array
DataBlocks == {DataBlock(k) : k \in 1..Len(chunkDynamicArray)}
FreeChunks(blocks) == (blocks \ DataBlocks) \ {ARRAY}
FreeChunksErr(blocks) ==
    IF (DataBlocks \cup {ARRAY}) \subseteq blocks THEN {} ELSE {"doubleFree"}

(* main, lines 377-386 *)
ParseHeader ==
    /\ pc = "GetIhdrChunkData"
    /\ \E g \in GarbageBytes :
        LET r == GetIhdrChunkData(chunkDynamicArray[1], g)
        IN  /\ ihdr' = r.ihdr
            /\ IF r.ret = -1
               THEN /\ Exit(-1, r.err)
                    /\ live' = FreeChunks(live)
                    /\ memErr' = memErr \cup FreeChunksErr(live)
               ELSE /\ pc' = "DecompressIdatChuncks"
                    /\ UNCHANGED <<exitCode, err, live, memErr>>
    /\ UNCHANGED <<chunks, mutation, file, isLittleEndian, cursor, chunk, crc,
                   chunkDynamicArray, compressedSource, inflated, reads,
                   lastRead, oob>>

----------------------------------------------------------------------------
(* DecompressIdatChuncks, lines 282-322 *)

IsData(type) == StrEq(type, DATA_CHUNK_TYPE \o <<0>>)

\* memcpy(compressedSource + at, data, dataLength) into a block of garbage g
WriteAt(buf, at, data, g) ==
    LET end == IF at + Len(data) > Len(buf) THEN at + Len(data) ELSE Len(buf)
    IN  [j \in 1..end |->
            IF j > at /\ j <= at + Len(data) THEN data[j - at]
            ELSE IF j <= Len(buf) THEN buf[j]
            ELSE g]

\* the loop of lines 292-300: [buf, size] from chunk i on, the next write
\* going to offset compressedSourceIndex
RECURSIVE Collect(_, _, _, _, _, _)
Collect(array, i, buf, compressedSourceIndex, compressedSize, g) ==
    IF i > Len(array) THEN [buf |-> buf, size |-> compressedSize]
    ELSE IF IsData(array[i].type)
    THEN Collect(array, i + 1,
                 WriteAt(buf, compressedSourceIndex, array[i].data, g),
                 compressedSourceIndex + 1,
                 compressedSize + Num(array[i].dataLength), g)
    ELSE Collect(array, i + 1, buf, compressedSourceIndex, compressedSize, g)

\* the compressedSize bytes at compressedSource that uncompress is given
CompressedStream(array, g) ==
    LET c == Collect(array, 1, <<>>, 0, 0, g)
    IN  [j \in 1..c.size |-> IF j <= Len(c.buf) THEN c.buf[j] ELSE g]

MOVED == <<"compressed", 1>>

\* uncompress(dest, &destLen, source, sourceLen) == Z_OK, line 310: inflate
\* makes no progress on a source of no bytes, which uncompress reports as an
\* error; accepted stands for what it makes of any other source
UncompressesAnything(accepted, stream) == accepted

Uncompresses(accepted, stream) == accepted /\ Len(stream) > 0

(* main, lines 388-404.  The decompressor is zlib's uncompress: it rejects *)
(* an empty stream, and the model lets it accept or reject any other one   *)
(* (accepted) with any output size up to MaxInflated.  realloc may return  *)
(* the block it was given or release it and return another (moved); the    *)
(* code drops what it returns.  main's uncompressedDestination is never    *)
(* assigned: DecompressIdatChuncks sets its own copy.                      *)
Decompress ==
    /\ pc = "DecompressIdatChuncks"
    /\ \E srcAllocated \in BOOLEAN, moved \in BOOLEAN, dstAllocated \in BOOLEAN,
          accepted \in BOOLEAN, outSize \in 0..MaxInflated,
          g \in GarbageBytes, survives \in BOOLEAN :
        LET stream == CompressedStream(chunkDynamicArray, g)
            \* after realloc(compressedSource, compressedSize), line 301
            live1 == IF moved
                     THEN IF Len(stream) > 0 THEN live \cup {MOVED} ELSE live
                     ELSE live \cup {COMPRESSED}
            \* free(compressedSource), lines 306, 313 and 318
            live2 == FreeIn(live1, COMPRESSED)
            freeErr == FreeErr(live1, COMPRESSED)
            zOk == Uncompresses(accepted, stream)
            called == srcAllocated /\ dstAllocated
            ret == IF called /\ zOk THEN 0 ELSE -1
            message ==
                IF ~srcAllocated
                THEN "Error: Unable to allocate enough memory for compressed source!"
                ELSE IF ~dstAllocated
                THEN "Error: Unable to allocate enough memory for uncompressed destination!"
                ELSE "Error: Cannot decompress!"
            \* the heap when DecompressIdatChuncks returns
            live3 == IF ~srcAllocated THEN live
                     ELSE IF ~dstAllocated THEN live2
                     ELSE live2 \cup {INFLATED}
            err3 == IF ~srcAllocated THEN {}
                    ELSE freeErr \cup
                         (IF moved /\ dstAllocated THEN {"useAfterFree"} ELSE {})
        IN  /\ compressedSource' = IF called THEN stream ELSE compressedSource
            /\ inflated' = [called |-> called, ok |-> (ret = 0),
                            size |-> IF ret = 0 THEN outSize ELSE 0]
            /\ IF ret = -1
               THEN \* free(uncompressedDestination) of line 392 releases a
                    \* pointer that holds no allocation
                    /\ memErr' = memErr \cup err3 \cup {"freeOfUnassignedPointer"}
                    /\ IF survives
                       THEN /\ Exit(-1, message)
                            /\ live' = FreeChunks(live3)
                       ELSE /\ Crash
                            /\ live' = live3
               ELSE /\ memErr' = memErr \cup err3
                    /\ live' = FreeChunks(live3)
                    /\ pc' = "print"
                    /\ UNCHANGED <<exitCode, err>>
    /\ UNCHANGED <<chunks, mutation, file, isLittleEndian, cursor, chunk, crc,
                   chunkDynamicArray, ihdr, reads, lastRead, oob>>

(* main, lines 406-417: the loop reads *(uncompressedDestination + i) for  *)
(* i = 0, width*4, ... below uncompressedSize, through the unassigned      *)
(* pointer; with width*4 = 0 (mod 2^32) it never advances                  *)

\* ihdr.width * 4, an unsigned int, is zero
StrideIsZero(width) == width[1] % 64 = 0 /\ width[2] = 0 /\ width[3] = 0 /\ width[4] = 0

PrintPixels ==
    /\ pc = "print"
    /\ \E survives \in BOOLEAN :
        IF inflated.size = 0
        THEN Exit(0, "") /\ UNCHANGED memErr
        ELSE /\ memErr' = memErr \cup {"readThroughUnassignedPointer"}
             /\ IF ~survives THEN Crash
                ELSE IF StrideIsZero(ihdr.width)
                THEN UNCHANGED <<pc, exitCode, err>>
                ELSE Exit(0, "")
    /\ UNCHANGED <<chunks, mutation, file, isLittleEndian, cursor, chunk, crc,
                   chunkDynamicArray, ihdr, compressedSource, inflated, live,
                   reads, lastRead, oob>>

----------------------------------------------------------------------------
Next ==
    \/ Start
    \/ FillBuffer
    \/ ReadChunk
    \/ AppendChunk
    \/ ParseHeader
    \/ Decompress
    \/ PrintPixels

Spec == Init /\ [][Next]_vars

----------------------------------------------------------------------------
(* The same program on files whose first chunk carries every combination   *)
(* of header fields: first chunk, one image-data chunk, terminator         *)

HeaderData(w, h, depth, colour, compression, filter, interlace) ==
    w \o h \o <<depth, colour, compression, filter, interlace>>

HeaderDatas ==
    {HeaderData(w, h, depth, colour, compression, filter, interlace) :
        w \in {Zero32, <<0, 0, 1, 2>>},
        h \in {Zero32, <<0, 0, 0, 1>>},
        depth \in {0, 1, 2, 3, 4, 8, 16},
        colour \in {0, 1, 2, 3, 4, 6},
        compression \in {0, 1},
        filter \in {0, 1},
        interlace \in {0, 1, 2}}

FirstChunks ==
    {Chunk(IHDR_TYPE, d) : d \in HeaderDatas}
    \cup {Chunk(IHDR_TYPE, SubSeq(ValidIhdrData, 1, IHDR_LENGTH - 1)),
          Chunk(IHDR_TYPE, ValidIhdrData \o <<0>>),
          Chunk(IHDR_TYPE, <<64, 0, 0, 0>> \o SubSeq(ValidIhdrData, 5, IHDR_LENGTH)),
          Chunk(TEXT_TYPE, ValidIhdrData),
          Chunk(TEXT_TYPE, <<>>)}

SerializeAny(cs) ==
    pngSignature \o Flatten([i \in 1..Len(cs) |-> WireChunk(cs[i])])

InitHdr ==
    /\ chunks \in {<<c, Chunk(DATA_CHUNK_TYPE, <<120>>),
                     Chunk(LAST_CHUNK_TYPE_SIGNATURE, <<>>)>> : c \in FirstChunks}
    /\ mutation = NoMutation
    /\ file = SerializeAny(chunks)
    /\ pc = "main"
    /\ isLittleEndian = TRUE
    /\ cursor = 0
    /\ chunk = NoChunk
    /\ crc = Zero32
    /\ chunkDynamicArray = <<>>
    /\ ihdr = NoIhdr
    /\ compressedSource = <<>>
    /\ inflated = NoInflated
    /\ live = {}
    /\ memErr = {}
    /\ reads = 0
    /\ lastRead = NoRead
    /\ oob = FALSE
    /\ exitCode = 0
    /\ err = ""

SpecHdr == InitHdr /\ [][Next]_vars

----------------------------------------------------------------------------
(* Properties *)

Failed == pc = "exit" /\ exitCode = -1

\* the container walk has ended: the terminator is in the array
WalkDone ==
    /\ Len(chunkDynamicArray) > 0
    /\ IsLast(chunkDynamicArray[Len(chunkDynamicArray)].type)

\* offset of the first payload byte of the chunk the last ReadChunk began
PayloadAt == lastRead.at + CHUNK_DATA_LENGTH + CHUNK_TYPE_LENGTH

\* the last ReadChunk found its length and type fields inside the buffer
FieldsInside == reads > 0 /\ PayloadAt <= Len(file)

\* ... and the length it decoded needs more bytes than remain after the type
\* tag, the four checksum bytes counted
LengthExceedsBuffer ==
    /\ FieldsInside
    /\ \/ ~Small(chunk.dataLength)
       \/ PayloadAt + Num(chunk.dataLength) + CHUNK_CRC_LENGTH > Len(file)

\* the last ReadChunk ran the memcpy of line 119 on at least one byte
PayloadCopied ==
    /\ lastRead.stage \in {"copy", "crc", "compare"}
    /\ chunk.dataLength # Zero32

\* C1: when the length field of a chunk asks for more bytes than the buffer
\* still holds, ReadChunk fails without copying a payload byte, and no byte
\* outside the buffer is read.
C1_LengthCheckedBeforeCopy ==
    LengthExceedsBuffer => (Failed /\ ~PayloadCopied /\ ~oob)

\* C2: the walk of a buffer that runs out before a terminator has ended in a
\* failure by then: the loop never comes round to ReadChunk with the buffer
\* exhausted, and ReadChunk is never begun at or after the end of the buffer.
C2_WalkFailsAtEndOfBuffer ==
    /\ pc = "ReadChunk" => cursor < Len(file)
    /\ reads > 0 => lastRead.at < Len(file)

\* the last ReadChunk reached the test of line 134 with a stored checksum
\* that is not the CRC-32 of the type and payload it read
ChecksumMismatch ==
    /\ lastRead.stage = "compare"
    /\ crc # crc32(Zero32, SubSeq(chunk.type, 1, CHUNK_TYPE_LENGTH) \o chunk.data)

\* the file was damaged in one byte, inside the payload of the chunk the last
\* ReadChunk read
PayloadTampered ==
    /\ lastRead.stage = "compare"
    /\ mutation.kind = "flip"
    /\ mutation.at >= PayloadAt
    /\ mutation.at < PayloadAt + Num(chunk.dataLength)
    /\ PayloadAt + Num(chunk.dataLength) + CHUNK_CRC_LENGTH <= Len(file)

\* C3: a chunk whose stored checksum differs from the recomputed one, as
\* that of any chunk with one payload byte changed does, makes ReadChunk
\* fail and main return: the chunk is not appended, no further chunk is
\* read, the header is not parsed and nothing is decompressed.
C3_ChecksumMismatchAborts ==
    (ChecksumMismatch \/ PayloadTampered) =>
        /\ Failed
        /\ err = "Error: Checksum failed!"
        /\ Len(chunkDynamicArray) = reads - 1
        /\ ~WalkDone
        /\ ihdr = NoIhdr
        /\ ~inflated.called
        /\ compressedSource = <<>>

\* one byte of the payload of the second chunk read was changed
C3_Witness ==
    /\ ChecksumMismatch
    /\ Failed
    /\ reads = 2
    /\ mutation.kind = "flip"
    /\ mutation.at >= PayloadAt
    /\ mutation.at < PayloadAt + Num(chunk.dataLength)

\* the buffer holds eight bytes and they are not the signature
BadSignature ==
    /\ Len(file) >= PNG_SIGNATURE_LENGTH
    /\ SubSeq(file, 1, PNG_SIGNATURE_LENGTH) # pngSignature

\* what main prints when the file cannot be opened or the buffer allocated
EnvironmentErrors ==
    {"Error: Can't open the file!",
     "Error: Unable to allocate enough memory!",
     "Error: Unable to allocate enough memory for chunk data!",
     "Error: Unable to reallocate memory for chunk dynamic array!"}

RECURSIVE UpToTerminator(_)
UpToTerminator(cs) ==
    IF cs = <<>> THEN <<>>
    ELSE IF Head(cs).type = LAST_CHUNK_TYPE_SIGNATURE THEN <<Head(cs)>>
    ELSE <<Head(cs)>> \o UpToTerminator(Tail(cs))

HasTerminator(cs) == \E i \in 1..Len(cs) : cs[i].type = LAST_CHUNK_TYPE_SIGNATURE

\* the (type, payload) pairs of the array
Parsed ==
    [i \in 1..Len(chunkDynamicArray) |->
        Chunk(SubSeq(chunkDynamicArray[i].type, 1, CHUNK_TYPE_LENGTH),
              chunkDynamicArray[i].data)]

\* a file written with correct lengths and checksums, ending in a terminator
WellFormed == mutation = NoMutation /\ HasTerminator(chunks)

\* C5: the walk of signature || chunk1 || ... || terminator, written with
\* correct lengths and checksums, yields the chunks written, in order, up to
\* and including the terminator, reads nothing after it and stays inside the
\* buffer; it stops early only when memory or the file is refused.
C5_RoundTrip ==
    WellFormed =>
        LET expected == UpToTerminator(chunks)
        IN  /\ Len(Parsed) <= Len(expected)
            /\ Parsed = SubSeq(expected, 1, Len(Parsed))
            /\ \A i \in 1..Len(chunkDynamicArray) :
                  chunkDynamicArray[i].dataLength = U32(Len(expected[i].data))
            /\ ~oob
            /\ WalkDone =>
                  /\ Parsed = expected
                  /\ reads = Len(expected)
                  /\ cursor = Len(Serialize(expected))
            /\ (~WalkDone /\ pc \in {"exit", "crashed"}) =>
                  \/ err \in EnvironmentErrors
                  \/ "nullDereference" \in memErr

\* a header, an image-data chunk, an empty ancillary chunk and the terminator
\* came back as written
C5_Witness ==
    /\ WellFormed
    /\ WalkDone
    /\ Len(chunkDynamicArray) = 4
    /\ Parsed = chunks
    /\ \E i \in 1..3 : chunkDynamicArray[i].data = <<>>

\* the payloads of the image-data chunks of the array, in order, end to end
ImageData ==
    Flatten([i \in 1..Len(chunkDynamicArray) |->
                IF SubSeq(chunkDynamicArray[i].type, 1, CHUNK_TYPE_LENGTH)
                       = DATA_CHUNK_TYPE
                THEN chunkDynamicArray[i].data
                ELSE <<>>])

\* C6: the stream given to the decompressor is the payloads of the IDAT
\* chunks, and of no other chunk, end to end in file order: each payload
\* begins where the one before it ends.
C6_StreamIsConcatenation ==
    inflated.called => compressedSource = ImageData

\* C7: when main returns a failure, every block it allocated has been
\* released, once, and no pointer was released or read that held no live
\* block.
C7_ReleasedExactlyOnce ==
    Failed => (live = {} /\ memErr = {})

HeaderErrors ==
    {"Error: IHDR chunk data length is less than 13!",
     "Error: IHDR width less/equal zero!",
     "Error: IHDR height less/equal zero!",
     "Error: Invalid IHDR bit depth!",
     "Error: Invalid IHDR color type!",
     "Error: IHDR color type and bit depth invalid pair!",
     "Error: IHDR compression method not zero. Only zero value allowed for PNG!",
     "Error: IHDR filter method not zero. Only zero value allowed for PNG!",
     "Error: IHDR interlace method not valid!"}

\* GetIhdrChunkData has run on the first chunk of the array
HeaderRun == WalkDone /\ pc # "GetIhdrChunkData"
HeaderRejected == Failed /\ err \in HeaderErrors
HeaderData1 == chunkDynamicArray[1].data

BitDepths == {1, 2, 4, 8, 16}
ColorTypes == {GRAYSCALE, TRUECOLOR, INDEXED_COLOR, GRAYSCALE_WITH_ALPHA,
               TRUECOLOR_WITH_ALPHA}

\* the legal combinations of the format
LegalPair(depth, colour) ==
    CASE colour = GRAYSCALE -> depth \in {1, 2, 4, 8, 16}
      [] colour = INDEXED_COLOR -> depth \in {1, 2, 4, 8}
      [] colour \in {TRUECOLOR, GRAYSCALE_WITH_ALPHA, TRUECOLOR_WITH_ALPHA} ->
            depth \in {8, 16}
      [] OTHER -> FALSE

\* C8: with the other header fields valid, a header whose bit depth and
\* colour type are each a known value is accepted when the pair is legal and
\* rejected when it is not.
C8_LegalPairsOnly ==
    (/\ HeaderRun
     /\ Len(HeaderData1) >= IHDR_LENGTH
     /\ SubSeq(HeaderData1, 1, 4) # Zero32
     /\ SubSeq(HeaderData1, 5, 8) # Zero32
     /\ HeaderData1[9] \in BitDepths
     /\ HeaderData1[10] \in ColorTypes
     /\ HeaderData1[11] = 0
     /\ HeaderData1[12] = 0
     /\ HeaderData1[13] \in {0, 1})
    => (HeaderRejected <=> ~LegalPair(HeaderData1[9], HeaderData1[10]))

\* the error the first violated rule gives, the rules taken in the order
\* width, height, bit depth, colour type, pair, compression, filter,
\* interlace; "" when every rule holds
ExpectedHeaderError(d) ==
    IF Len(d) < IHDR_LENGTH THEN "Error: IHDR chunk data length is less than 13!"
    ELSE IF SubSeq(d, 1, 4) = Zero32 THEN "Error: IHDR width less/equal zero!"
    ELSE IF SubSeq(d, 5, 8) = Zero32 THEN "Error: IHDR height less/equal zero!"
    ELSE IF d[9] \notin BitDepths THEN "Error: Invalid IHDR bit depth!"
    ELSE IF d[10] \notin ColorTypes THEN "Error: Invalid IHDR color type!"
    ELSE IF ~LegalPair(d[9], d[10])
    THEN "Error: IHDR color type and bit depth invalid pair!"
    ELSE IF d[11] # 0
    THEN "Error: IHDR compression method not zero. Only zero value allowed for PNG!"
    ELSE IF d[12] # 0
    THEN "Error: IHDR filter method not zero. Only zero value allowed for PNG!"
    ELSE IF d[13] \notin {0, 1} THEN "Error: IHDR interlace method not valid!"
    ELSE ""

\* C9: GetIhdrChunkData fails on a payload shorter than 13 bytes and
\* otherwise reports the error of the first rule, in that order, that the
\* header violates; it succeeds exactly when every rule holds.
C9_FirstViolatedRuleReported ==
    HeaderRun =>
        IF ExpectedHeaderError(HeaderData1) = ""
        THEN ~HeaderRejected
        ELSE HeaderRejected /\ err = ExpectedHeaderError(HeaderData1)

\* GetIhdrChunkData got as far as reading bitDepth, and as far as colorType
DepthRead ==
    /\ HeaderRun
    /\ err \notin {"Error: IHDR chunk data length is less than 13!",
                   "Error: IHDR width less/equal zero!",
                   "Error: IHDR height less/equal zero!"}
ColourRead == DepthRead /\ err # "Error: Invalid IHDR bit depth!"

\* C10: whatever the host byte order, the length and checksum ReadChunk
\* decodes and the width, height, bitDepth and colorType GetIhdrChunkData
\* decodes are the big-endian reading of the wire bytes (one byte for
\* bitDepth and for colorType).
C10_DecodedAsBigEndian ==
    /\ (lastRead.stage = "compare" /\ ~oob) =>
          /\ chunk.dataLength = BigEndian(SubSeq(file, lastRead.at + 1, lastRead.at + 4))
          /\ crc = BigEndian(SubSeq(file, cursor - 3, cursor))
    /\ DepthRead =>
          /\ ihdr.width = BigEndian(SubSeq(HeaderData1, 1, 4))
          /\ ihdr.height = BigEndian(SubSeq(HeaderData1, 5, 8))
          /\ ihdr.bitDepth = U32(HeaderData1[9])
    /\ ColourRead => ihdr.colorType = U32(HeaderData1[10])

\* the array holds the whole walk and none of its chunks is an IDAT chunk
NoImageData ==
    /\ WalkDone
    /\ \A i \in 1..Len(chunkDynamicArray) :
          SubSeq(chunkDynamicArray[i].type, 1, CHUNK_TYPE_LENGTH) # DATA_CHUNK_TYPE

\* DecompressIdatChuncks has returned to main: with 0, or with -1, after
\* which main runs line 392
DecompressReturned == inflated.ok \/ "freeOfUnassignedPointer" \in memErr

DecompressErrors ==
    {"Error: Unable to allocate enough memory for compressed source!",
     "Error: Unable to allocate enough memory for uncompressed destination!",
     "Error: Cannot decompress!"}

\* C11: on a chunk sequence without an IDAT chunk DecompressIdatChuncks
\* returns -1 whenever it is called, and no inflated stream comes to exist
\* whether the header parsed or not: main never reaches its print loop and
\* never returns 0.
C11_NoImageDataFails ==
    NoImageData =>
        /\ ~inflated.ok
        /\ inflated.size = 0
        /\ pc # "print"
        /\ pc = "exit" => exitCode = -1
        /\ DecompressReturned =>
              /\ pc \in {"exit", "crashed"}
              /\ pc = "exit" => err \in DecompressErrors

\* the header parsed, both blocks were allocated, and uncompress refused the
\* empty stream
C11_Witness ==
    /\ NoImageData
    /\ ihdr.width = U32(1)
    /\ inflated.called
    /\ compressedSource = <<>>
    /\ DecompressReturned
    /\ Failed
    /\ err = "Error: Cannot decompress!"

\* the first chunk of the array does not carry the header type tag
FirstIsNotHeader ==
    /\ Len(chunkDynamicArray) > 0
    /\ SubSeq(chunkDynamicArray[1].type, 1, CHUNK_TYPE_LENGTH) # IHDR_TYPE

\* no field of main's ihdr was written: it is as main declared it
HeaderUntouched == ihdr \in {NoIhdr} \cup {GarbageIhdr(g) : g \in GarbageBytes}

\* C12: when the first chunk of the array is not an IHDR chunk, header
\* parsing has failed once it has run, and no byte of that chunk's payload
\* was taken for a header field.
C12_MissingHeaderRejected ==
    (HeaderRun /\ FirstIsNotHeader) => (HeaderRejected /\ HeaderUntouched)

\* main's loop of lines 406-409 has read at least one byte
CallerHasRead == inflated.ok /\ inflated.size > 0 /\ pc \in {"exit", "crashed"}

\* C13: after DecompressIdatChuncks returned 0, every byte main reads in its
\* loop is read from the inflated block, through a pointer that was assigned
\* that block.
C13_CallerReadsInflatedBuffer ==
    CallerHasRead =>
        /\ "readThroughUnassignedPointer" \notin memErr
        /\ pc = "exit"

\* C14: no step of the program moves the read cursor to a smaller position:
\* the sum of the cursor and a chunk's length field never passes 2^32.
C14_CursorNeverDecreases == [][cursor' >= cursor]_vars

====
